---- MODULE Spec2Model ----
(***************************************************************************)
(* A model of the command tree of src/cobra.go: Command nodes wired by     *)
(* AddCommand, the resolver Find, the flag merger mergePersistentFlags,    *)
(* ParseFlags, CommandPath and the dispatcher execute / Commander.Execute. *)
(*                                                                         *)
(* Strings are sequences of one-character strings, so that Name() (the     *)
(* first word of Use) and CommandPath() (names joined by " ") are computed *)
(* as the code computes them.  A *flag.Flag is the record naming the set   *)
(* it was registered in, so that sharing of one flag object between two    *)
(* flag sets is visible.                                                   *)
(***************************************************************************)
EXTENDS Integers, Sequences, FiniteSets, TLC

\* ---- bounds of the model ----
NumNodes == 3      \* Command objects constructed by the application
MaxAdds == 2       \* total number of entries appended to commands lists
MaxCmds == 2       \* commands passed to one AddCommand call
MaxFlags == 2      \* flags registered by the application, over all nodes
MaxArgs == 3       \* length of an argument list

\* the nil pointer
Nil == 0
\* the Command embedded in the one Commander (NewCommander)
Root == 1

Nodes == 1..NumNodes

\* ---- strings ----
SP == " "
FlagNames == {<<"x">>, <<"y">>}
UseLines == {<<"a">>, <<"b", SP, "z">>}
RootName == <<"r">>
Dashes == <<"-", "-">>
\* tokens of a command line: words and long flags
Tokens == {<<"a">>, <<"b">>} \cup {Dashes \o f : f \in FlagNames}

RECURSIVE SeqsUpTo(_, _)
SeqsUpTo(S, n) ==
    IF n = 0 THEN {<<>>}
    ELSE LET shorter == SeqsUpTo(S, n - 1)
         IN  shorter \cup {Append(s, e) : s \in {t \in shorter : Len(t) = n - 1}, e \in S}

ArgLists == SeqsUpTo(Tokens, MaxArgs)
\* the commands of one AddCommand call: any nodes, or only the other Commands
CmdLists == SeqsUpTo(Nodes, MaxCmds) \ {<<>>}
SubCmdLists == SeqsUpTo(Nodes \ {Root}, MaxCmds) \ {<<>>}
\* the arguments of a direct call of ParseFlags: nothing, or one flag
ParseLists == {<<>>} \cup {<<Dashes \o f>> : f \in FlagNames}

\* ---- flags ----
NoFlag == [owner |-> Nil, set |-> "none", name |-> <<>>]
NewFlag(n, s, x) == [owner |-> n, set |-> s, name |-> x]
EmptyFlagSet == [x \in FlagNames |-> NoFlag]

\* ---- results of the last call ----
\* errors: nil, the flag set's parse error on a token, "unknown subcommand"
NoErr == [kind |-> "nil", arg |-> <<>>]
ParseError(tok) == [kind |-> "parse", arg |-> tok]
UnknownSubcommand(tok) == [kind |-> "unknown subcommand", arg |-> tok]

\* op: the call; status: "ok" (returned nil), "error" (returned err), "panic"
\* or "hang"; target: the node resolved or called on; ran: the Run actions
\* invoked, with their arguments; usage: the nodes whose usage was rendered;
\* nth: 2 when the call repeats the call before it on the same node
NoRes == [op |-> "none", status |-> "none", err |-> NoErr, target |-> Nil,
          ran |-> <<>>, usage |-> <<>>, args |-> <<>>, rest |-> <<>>, str |-> <<>>,
          nth |-> 0]

VARIABLES
    name,      \* Command.name: the explicit name ("" when unset)
    Use,       \* Command.Use: the one-line usage message
    Run,       \* Command.Run # nil
    commands,  \* Command.commands: the children, in insertion order
    parent,    \* Command.parent
    cmdr,      \* Command.cmdr: Root when it points to the Commander, else Nil
    flags,     \* Command.flags: name -> flag object
    pflags,    \* Command.pflags: name -> flag object
    pc,        \* "run"; "done" once Execute or a query (Find, CommandPath) has
               \* returned: a query changes nothing, so what may follow it is
               \* what may follow the state it was made in; "abort" after a
               \* panic, a stack overflow or a loop that never ends
    res        \* what the last call returned or did

vars == <<name, Use, Run, commands, parent, cmdr, flags, pflags, pc, res>>

\* ---- queries of a node ----
RECURSIVE FirstWord(_)
FirstWord(s) ==
    IF s = <<>> \/ Head(s) = SP THEN <<>> ELSE <<Head(s)>> \o FirstWord(Tail(s))

Name(c) == IF name[c] # <<>> THEN name[c] ELSE FirstWord(Use[c])

Runnable(c) == Run[c]

HasSubCommands(c) == Len(commands[c]) > 0

HasParent(c) == parent[c] # Nil

HasFlagsIn(fs) == \E x \in FlagNames : fs[x] # NoFlag

HasPersistentFlags(c) == HasFlagsIn(pflags[c])

Lookup(fs, x) == fs[x]

RECURSIVE SumLen(_, _)
SumLen(f, S) ==
    IF S = {} THEN 0
    ELSE LET n == CHOOSE m \in S : TRUE IN Len(f[n]) + SumLen(f, S \ {n})

TotalAdds == SumLen(commands, Nodes)

RegisteredIn(fs, n, s) == {x \in FlagNames : fs[x] = NewFlag(n, s, x)}

TotalFlags ==
    LET F(n) == Cardinality(RegisteredIn(flags[n], n, "flags"))
                + Cardinality(RegisteredIn(pflags[n], n, "pflags"))
        RECURSIVE Sum(_)
        Sum(S) == IF S = {} THEN 0
                  ELSE LET n == CHOOSE m \in S : TRUE IN F(n) + Sum(S \ {n})
    IN  Sum(Nodes)

\* ---- construction ----
\* What NewCommander and the Command literals of the application leave.
Built(u, r) ==
    /\ name = [n \in Nodes |-> IF n = Root THEN RootName ELSE <<>>]
    /\ Use = u
    /\ Run = r
    /\ commands = [n \in Nodes |-> <<>>]
    /\ parent = [n \in Nodes |-> Nil]
    /\ cmdr = [n \in Nodes |-> IF n = Root THEN Root ELSE Nil]
    /\ flags = [n \in Nodes |-> EmptyFlagSet]
    /\ pflags = [n \in Nodes |-> EmptyFlagSet]
    /\ pc = "run"
    /\ res = NoRes

\* the use lines and run actions the trees are built from
TreeUses == {u \in [Nodes -> UseLines \cup {<<>>}] :
               /\ u[Root] = <<>>
               /\ \A n \in Nodes \ {Root} : u[n] # <<>>
               /\ NumNodes > 1 => u[2] = <<"a">>}
TreeRuns == [Nodes -> BOOLEAN]

InitTree == \E u \in TreeUses, r \in TreeRuns : Built(u, r)

\* one naming of the commands, every one but the root runnable
FixedUse == [n \in Nodes |-> IF n = Root THEN <<>>
                             ELSE IF n % 2 = 0 THEN <<"a">> ELSE <<"b", SP, "z">>]
FlagRuns == {r \in TreeRuns : \A n \in Nodes \ {Root} : r[n]}

Init == \E r \in FlagRuns : Built(FixedUse, r)

InitMerge == Built(FixedUse, [n \in Nodes |-> TRUE])

\* ---- AddCommand ----
\* The loop of AddCommand over cmds[i..], from the state st = [commands,
\* parent, cmdr, panic]; it stops at the panic.
\* an AddCommand loop that attaches without comparing to the receiver
RECURSIVE AddLoopUnchecked(_, _, _, _)
AddLoopUnchecked(c, cmds, i, st) ==
    IF i > Len(cmds) THEN st
    ELSE LET x == cmds[i]
             p1 == [st.parent EXCEPT ![x] = c]
             c1 == [st.cmdr EXCEPT ![x] = st.cmdr[p1[x]]]
             k1 == [st.commands EXCEPT ![c] = Append(@, x)]
         IN  AddLoopUnchecked(c, cmds, i + 1,
                     [commands |-> k1, parent |-> p1, cmdr |-> c1, panic |-> FALSE])

RECURSIVE AddLoop(_, _, _, _)
AddLoop(c, cmds, i, st) ==
    IF i > Len(cmds) THEN st
    ELSE LET x == cmds[i] IN
         IF x = c THEN [st EXCEPT !.panic = TRUE]
         ELSE LET p1 == [st.parent EXCEPT ![x] = c]
                  c1 == [st.cmdr EXCEPT ![x] = st.cmdr[p1[x]]]
                  k1 == [st.commands EXCEPT ![c] = Append(@, x)]
              IN  AddLoop(c, cmds, i + 1,
                          [commands |-> k1, parent |-> p1, cmdr |-> c1, panic |-> FALSE])

AddCommand(c, cmds) ==
    /\ pc = "run"
    /\ TotalAdds + Len(cmds) <= MaxAdds
    /\ LET st == AddLoop(c, cmds, 1,
                   [commands |-> commands, parent |-> parent, cmdr |-> cmdr,
                    panic |-> FALSE])
       IN  /\ commands' = st.commands
           /\ parent' = st.parent
           /\ cmdr' = st.cmdr
           /\ pc' = IF st.panic THEN "abort" ELSE "run"
           /\ res' = NoRes
    /\ UNCHANGED <<name, Use, Run, flags, pflags>>

\* ---- flag registration by the application ----
\* c.Flags().Bool(x, ...): the flag set rejects a name it already holds.
AddLocalFlag(c, x) ==
    /\ pc = "run"
    /\ TotalFlags < MaxFlags
    /\ Lookup(flags[c], x) = NoFlag
    /\ flags' = [flags EXCEPT ![c][x] = NewFlag(c, "flags", x)]
    /\ res' = NoRes
    /\ UNCHANGED <<name, Use, Run, commands, parent, cmdr, pflags, pc>>

\* c.PersistentFlags().Bool(x, ...)
AddPersistentFlag(c, x) ==
    /\ pc = "run"
    /\ TotalFlags < MaxFlags
    /\ Lookup(pflags[c], x) = NoFlag
    /\ pflags' = [pflags EXCEPT ![c][x] = NewFlag(c, "pflags", x)]
    /\ res' = NoRes
    /\ UNCHANGED <<name, Use, Run, commands, parent, cmdr, flags, pc>>

\* ---- Find ----
\* the index of the first child of c whose Name() equals tok, 0 when none
FirstMatch(c, tok) ==
    LET m == {i \in 1..Len(commands[c]) : Name(commands[c][i]) = tok}
    IN  IF m = {} THEN 0 ELSE CHOOSE i \in m : \A j \in m : i <= j

\* a Find that also matches the last argument against the children
WantsSubCommandOfLastArg(c, args) == Len(args) > 0 /\ HasSubCommands(c)

\* whether Find looks for a subcommand at all
WantsSubCommand(c, args) == Len(args) > 1 /\ HasSubCommands(c)

NotFound == [cmd |-> Nil, a |-> <<>>, err |-> Nil]

RECURSIVE Find(_, _)
Find(c, args) ==
    IF WantsSubCommand(c, args) /\ FirstMatch(c, args[1]) # 0
    THEN Find(commands[c][FirstMatch(c, args[1])], Tail(args))
    ELSE IF Runnable(c) THEN [cmd |-> c, a |-> args, err |-> Nil]
         ELSE NotFound

\* ---- mergePersistentFlags ----
\* a visit of x's local flags in place of its persistent flags
MergeVisitLocals(fl, x) ==
    IF HasFlagsIn(flags[x])
    THEN [n \in FlagNames |->
            IF flags[x][n] # NoFlag /\ Lookup(fl, n) = NoFlag THEN flags[x][n] ELSE fl[n]]
    ELSE fl

\* a visit that adds a copy of the flag instead of the flag itself
MergeVisitCopying(fl, x) ==
    IF HasPersistentFlags(x)
    THEN [n \in FlagNames |->
            IF pflags[x][n] # NoFlag /\ Lookup(fl, n) = NoFlag
            THEN [pflags[x][n] EXCEPT !.set = "copy"] ELSE fl[n]]
    ELSE fl

\* a visit that adds without looking the name up first
MergeVisitOverwriting(fl, x) ==
    IF HasPersistentFlags(x)
    THEN [n \in FlagNames |-> IF pflags[x][n] # NoFlag THEN pflags[x][n] ELSE fl[n]]
    ELSE fl

\* the VisitAll of x's persistent flags, adding to the target's set fl
MergeVisit(fl, x) ==
    IF HasPersistentFlags(x)
    THEN [n \in FlagNames |->
            IF pflags[x][n] # NoFlag /\ Lookup(fl, n) = NoFlag THEN pflags[x][n] ELSE fl[n]]
    ELSE fl

\* an rmerge that returns once a visit has added a flag
ClimbsUnlessAdded(x, fl, fl1) == HasParent(x) /\ fl1 = fl

\* whether rmerge climbs on from x, where the visit of x turned fl into fl1
Climbs(x, fl, fl1) == HasParent(x)

\* rmerge(x) on the target's set fl; seen is the set of nodes on the call
\* stack: reaching one of them again is unbounded recursion.
RECURSIVE rmerge(_, _, _)
rmerge(fl, x, seen) ==
    LET fl1 == MergeVisit(fl, x) IN
    IF Climbs(x, fl, fl1)
    THEN IF parent[x] \in seen \cup {x}
         THEN [fl |-> fl1, overflow |-> TRUE]
         ELSE rmerge(fl1, parent[x], seen \cup {x})
    ELSE [fl |-> fl1, overflow |-> FALSE]

mergePersistentFlags(c) == rmerge(flags[c], c, {})

\* ---- Flag ----
\* persistentFlag(name) on c; seen is the set of nodes on the call stack:
\* reaching one of them again is unbounded recursion.
RECURSIVE persistentFlag(_, _, _)
persistentFlag(c, x, seen) ==
    LET flag == IF HasPersistentFlags(c) THEN Lookup(pflags[c], x) ELSE NoFlag IN
    IF flag = NoFlag /\ HasParent(c)
    THEN IF parent[c] \in seen \cup {c}
         THEN [flag |-> NoFlag, overflow |-> TRUE]
         ELSE persistentFlag(parent[c], x, seen \cup {c})
    ELSE [flag |-> flag, overflow |-> FALSE]

\* a Flag that asks the persistent flags before the local ones
FlagPersistentFirst(c, x) ==
    LET p == persistentFlag(c, x, {}) IN
    IF p.flag = NoFlag /\ ~p.overflow
    THEN [flag |-> Lookup(flags[c], x), overflow |-> FALSE]
    ELSE p

\* c.Flag(name): the local flag, else the nearest persistent one upwards
Flag(c, x) ==
    LET flag == Lookup(flags[c], x) IN
    IF flag = NoFlag THEN persistentFlag(c, x, {})
    ELSE [flag |-> flag, overflow |-> FALSE]

\* ---- the flag set's Parse ----
IsLongFlag(tok) == Len(tok) >= 2 /\ SubSeq(tok, 1, 2) = Dashes

\* Parse of args against the set fs, flags and words interspersed; pos
\* collects the words, which Args() returns
RECURSIVE ParseArgs(_, _, _)
ParseArgs(fs, args, pos) ==
    IF args = <<>> THEN [err |-> NoErr, rest |-> pos]
    ELSE LET s == Head(args) IN
         IF ~IsLongFlag(s) THEN ParseArgs(fs, Tail(args), Append(pos, s))
         ELSE IF Len(s) = 2 THEN [err |-> NoErr, rest |-> pos \o Tail(args)]
         ELSE LET x == SubSeq(s, 3, Len(s)) IN
              IF x \in FlagNames /\ Lookup(fs, x) # NoFlag
              THEN ParseArgs(fs, Tail(args), pos)
              ELSE [err |-> ParseError(s), rest |-> pos]

\* ---- ParseFlags ----
ParseFlags(c, args) ==
    /\ pc = "run"
    /\ LET m == mergePersistentFlags(c)
           p == ParseArgs(m.fl, args, <<>>)
       IN  /\ flags' = [flags EXCEPT ![c] = m.fl]
           /\ pc' = IF m.overflow THEN "abort" ELSE "run"
           /\ res' = [NoRes EXCEPT !.op = "ParseFlags", !.target = c,
                          !.nth = IF res.op = "ParseFlags" /\ res.target = c THEN 2 ELSE 1,
                          !.status = IF m.overflow THEN "panic"
                                     ELSE IF p.err # NoErr THEN "error" ELSE "ok"]
    /\ UNCHANGED <<name, Use, Run, commands, parent, cmdr, pflags>>

\* ---- CommandPath ----
Join(a, b) == a \o <<SP>> \o b

RECURSIVE PathLoop(_, _, _)
PathLoop(x, str, seen) ==
    IF HasParent(x)
    THEN IF parent[x] \in seen \cup {x}
         THEN [hang |-> TRUE, str |-> <<>>]
         ELSE PathLoop(parent[x], Join(Name(parent[x]), str), seen \cup {x})
    ELSE [hang |-> FALSE, str |-> str]

CommandPath(c) == PathLoop(c, Name(c), {})

CallCommandPath(c) ==
    /\ pc = "run"
    /\ LET r == CommandPath(c)
       IN  /\ pc' = IF r.hang THEN "abort" ELSE "done"
           /\ res' = [NoRes EXCEPT !.op = "CommandPath", !.target = c,
                          !.status = IF r.hang THEN "hang" ELSE "ok", !.str = r.str]
    /\ UNCHANGED <<name, Use, Run, commands, parent, cmdr, flags, pflags>>

\* ---- Commander.Execute / Command.execute ----
\* c.cmdr.UsageFunc(c) dereferences c.cmdr
UsagePanics(c) == cmdr[c] = Nil

\* execute first formats its "unknown subcommand" error from args[0], which
\* panics on an empty list; Find on a non-nil receiver returns no error, so
\* every path then goes through cmd.ParseFlags, a nil dereference when Find
\* found nothing, and the error formatted first is never returned.
Executed(args) ==
    IF Len(args) = 0
    THEN [fl |-> flags, out |-> [NoRes EXCEPT !.status = "panic"]]
    ELSE LET f == Find(Root, args) IN
         IF f.cmd = Nil
         THEN [fl |-> flags, out |-> [NoRes EXCEPT !.status = "panic"]]
         ELSE LET m == mergePersistentFlags(f.cmd)
                  fl1 == [flags EXCEPT ![f.cmd] = m.fl]
                  p == ParseArgs(m.fl, f.a, <<>>)
              IN  IF m.overflow
                  THEN [fl |-> fl1, out |-> [NoRes EXCEPT !.status = "panic", !.target = f.cmd]]
                  ELSE IF p.err # NoErr
                  THEN IF UsagePanics(f.cmd)
                       THEN [fl |-> fl1,
                             out |-> [NoRes EXCEPT !.status = "panic", !.target = f.cmd]]
                       ELSE [fl |-> fl1,
                             out |-> [NoRes EXCEPT !.status = "error", !.target = f.cmd,
                                          !.err = p.err, !.usage = <<f.cmd>>]]
                  ELSE [fl |-> fl1,
                        out |-> [NoRes EXCEPT !.status = "ok", !.target = f.cmd,
                                     !.ran = <<[cmd |-> f.cmd, args |-> p.rest]>>]]

Execute(args) ==
    /\ pc = "run"
    /\ LET e == Executed(args)
       IN  /\ flags' = e.fl
           /\ pc' = IF e.out.status = "panic" THEN "abort" ELSE "done"
           /\ res' = [e.out EXCEPT !.op = "Execute", !.args = args]
    /\ UNCHANGED <<name, Use, Run, commands, parent, cmdr, pflags>>

\* ---- a call of Find by the application ----
CallFind(c, args) ==
    /\ pc = "run"
    /\ LET f == Find(c, args)
       IN  res' = [NoRes EXCEPT !.op = "Find", !.status = "ok", !.args = args,
                       !.target = f.cmd, !.rest = f.a]
    /\ pc' = "done"
    /\ UNCHANGED <<name, Use, Run, commands, parent, cmdr, flags, pflags>>

\* ---- the specifications ----
\* Trees of every shape, naming and runnability, and the queries on them.
NextTree ==
    \/ \E c \in Nodes, cmds \in CmdLists : AddCommand(c, cmds)
    \/ \E c \in Nodes : CallCommandPath(c)
    \/ \E args \in ArgLists : CallFind(Root, args)

SpecTree == InitTree /\ [][NextTree]_vars

\* Trees under the Commander with flags, merged by ParseFlags.
NextMerge ==
    \/ \E c \in Nodes, cmds \in SubCmdLists : AddCommand(c, cmds)
    \/ \E c \in Nodes, x \in FlagNames : AddLocalFlag(c, x)
    \/ \E c \in Nodes, x \in FlagNames : AddPersistentFlag(c, x)
    \/ \E c \in Nodes, args \in ParseLists : ParseFlags(c, args)

SpecMerge == InitMerge /\ [][NextMerge]_vars

\* The application: it builds the tree under the Commander, registers its
\* flags and calls Execute.
Next ==
    \/ \E c \in Nodes, cmds \in SubCmdLists : AddCommand(c, cmds)
    \/ \E c \in Nodes, x \in FlagNames : AddLocalFlag(c, x)
    \/ \E c \in Nodes, x \in FlagNames : AddPersistentFlag(c, x)
    \/ \E args \in ArgLists : Execute(args)

Spec == Init /\ [][Next]_vars

\* ======================= the claims =======================
\* ---- vocabulary of the claims ----
Range(q) == {q[i] : i \in 1..Len(q)}
Count(n, q) == Cardinality({i \in 1..Len(q) : q[i] = n})

\* the nodes n, parent(n), ... up to the top or to the first repetition
RECURSIVE PathUp(_, _)
PathUp(n, seen) ==
    IF n = Nil \/ n \in seen THEN <<>> ELSE <<n>> \o PathUp(parent[n], seen \cup {n})

\* following parent pointers from n ends at a node without a parent
EndsAtTop(n) == LET q == PathUp(n, {}) IN parent[q[Len(q)]] = Nil
Top(n) == LET q == PathUp(n, {}) IN q[Len(q)]

\* C1: whenever Find returns no target and no error, execute returns an
\* "unknown subcommand" error that names args[0]; it does not panic and it
\* invokes no run action.
C1_UnknownSubcommandReported ==
    (res.op = "Execute" /\ res.args # <<>> /\ Find(Root, res.args) = NotFound)
        => /\ res.status = "error"
           /\ res.err = UnknownSubcommand(res.args[1])
           /\ res.ran = <<>>
           /\ pc # "abort"

\* C2: Find(root, args) is the result of the greedy walk: from cur = root and
\* rest = args, while rest has more than one element and cur has a child
\* named rest[0], move to the first such child and drop rest[0]; then
\* (cur, rest) if cur is runnable and (nil, nil) otherwise.  The target is
\* never a non-runnable node, and the names on the path to the target
\* followed by the residual arguments are args.
WalkNode(c, args) ==
    LET D[i \in 0..Len(args)] ==
            IF i = 0 THEN c
            ELSE IF D[i - 1] = Nil \/ i >= Len(args) THEN Nil
            ELSE LET kids == commands[D[i - 1]]
                     m == {j \in 1..Len(kids) : Name(kids[j]) = args[i]}
                 IN  IF m = {} THEN Nil
                     ELSE kids[CHOOSE j \in m : \A k \in m : j <= k]
    IN  D
WalkDepth(c, args) ==
    LET D == WalkNode(c, args)
    IN  CHOOSE k \in 0..Len(args) :
            /\ D[k] # Nil
            /\ \A j \in 0..Len(args) : D[j] # Nil => j <= k
C2_FindIsGreedyWalk ==
    res.op = "Find" =>
        LET args == res.args
            D == WalkNode(Root, args)
            k == WalkDepth(Root, args)
        IN  /\ Runnable(D[k]) =>
                /\ res.target = D[k]
                /\ res.rest = SubSeq(args, k + 1, Len(args))
                /\ [i \in 1..k |-> Name(D[i])] \o res.rest = args
            /\ ~Runnable(D[k]) => res.target = Nil /\ res.rest = <<>>
            /\ res.target # Nil => Runnable(res.target)
\* Find descended past a first child although a later sibling has its name
C2_Witness ==
    /\ res.op = "Find"
    /\ res.target \notin {Nil, Root}
    /\ res.rest # <<>>
    /\ \E i, j \in 1..Len(commands[Root]) :
          /\ i < j
          /\ commands[Root][i] = res.target
          /\ commands[Root][j] # res.target
          /\ Name(commands[Root][j]) = Name(res.target)

\* C3: for every runnable child c of the root and every sequence F of flag
\* tokens naming flags of c's local set or of an inheritable set of c or of
\* an ancestor, execute([Name(c)] ++ F) resolves c, parses F without error,
\* invokes c's run action with no positional arguments and returns no error.
FlagsUsableBy(c) ==
    {x \in FlagNames :
        \/ flags[c][x] # NoFlag
        \/ \E a \in Range(PathUp(c, {})) : pflags[a][x] # NoFlag}
C3_DispatchToChild ==
    \A c \in Range(commands[Root]) :
        ( /\ res.op = "Execute"
          /\ Runnable(c)
          /\ res.args # <<>>
          /\ res.args[1] = Name(c)
          /\ \A i \in 2..Len(res.args) :
                \E x \in FlagsUsableBy(c) : res.args[i] = Dashes \o x )
        => /\ res.status = "ok"
           /\ res.target = c
           /\ res.ran = <<[cmd |-> c, args |-> <<>>]>>

\* C4: after mergePersistentFlags on t, t's local set holds under every name
\* x the flag it held before, if any; otherwise the inheritable flag x of the
\* nearest node on the path t, parent(t), ..., root that defines x; otherwise
\* none.  Nothing comes from an ancestor's local set.
RECURSIVE NearestInherited(_, _)
NearestInherited(q, x) ==
    IF q = <<>> THEN NoFlag
    ELSE IF pflags[Head(q)][x] # NoFlag THEN pflags[Head(q)][x]
    ELSE NearestInherited(Tail(q), x)
MergedOn(t) == res'.op = "ParseFlags" /\ res'.target = t /\ res'.status # "panic"
C4_MergeKeepsLocalThenNearest ==
    [][\A t \in Nodes : MergedOn(t) =>
          \A x \in FlagNames :
              /\ flags'[t][x] = IF flags[t][x] # NoFlag THEN flags[t][x]
                                ELSE NearestInherited(PathUp(t, {}), x)
              /\ flags'[t][x] # flags[t][x] => flags'[t][x].set = "pflags"]_vars
\* a merge took the parent's flag x although the grandparent defines x too,
\* and kept a local flag although the parent defines its name
C4_Witness ==
    /\ res.op = "ParseFlags"
    /\ res.status = "ok"
    /\ \E t \in Nodes, x \in FlagNames :
          /\ HasParent(t)
          /\ HasParent(parent[t])
          /\ pflags[parent[parent[t]]][x] # NoFlag
          /\ pflags[parent[t]][x] # NoFlag
          /\ res.target = t
          /\ flags[t][x] = pflags[parent[t]][x]
C4_WitnessShadow ==
    /\ res.op = "ParseFlags"
    /\ res.status = "ok"
    /\ \E t \in Nodes, x \in FlagNames :
          /\ res.target = t
          /\ HasParent(t)
          /\ pflags[parent[t]][x] # NoFlag
          /\ flags[t][x] = NewFlag(t, "flags", x)

\* C5: a call of execute that resolved a target ends in one of two ways: the
\* parse of the residual arguments failed, the target's usage was rendered,
\* the parse error was returned and no run action was invoked; or the parse
\* succeeded, the target's run action was invoked exactly once with the
\* tokens the parser left, and nil was returned.
C5_SinglePassOutcome ==
    (res.op = "Execute" /\ res.target # Nil) =>
        LET t == res.target
            p == ParseArgs(flags[t], Find(Root, res.args).a, <<>>)
        IN  \/ /\ p.err # NoErr
               /\ res.status = "error"
               /\ res.err = p.err
               /\ res.usage = <<t>>
               /\ res.ran = <<>>
            \/ /\ p.err = NoErr
               /\ res.status = "ok"
               /\ res.err = NoErr
               /\ res.usage = <<>>
               /\ res.ran = <<[cmd |-> t, args |-> p.rest]>>

\* C6: every node of a tree whose root belongs to the Commander has that
\* Commander as its cmdr, in whatever order the subtrees were assembled.
C6_OwnerReachesEveryNode ==
    \A n \in Nodes :
        (EndsAtTop(n) /\ cmdr[Top(n)] # Nil) => cmdr[n] = cmdr[Top(n)]

\* C7: the parent relation forms a tree: following parent pointers from any
\* node reaches a node without a parent, and each node is in the children
\* list of at most one node.
C7_ParentRelationIsTree ==
    /\ \A n \in Nodes : EndsAtTop(n)
    /\ \A n \in Nodes : Cardinality({p \in Nodes : n \in Range(commands[p])}) <= 1

\* C8: every node that has a parent appears exactly once in the children list
\* of that parent.
C8_ChildListedOnce ==
    \A n \in Nodes : HasParent(n) => Count(n, commands[parent[n]]) = 1

\* C9: CommandPath() of every node terminates and returns the names of the
\* nodes from the root down to that node, joined by single spaces.
RECURSIVE JoinNames(_)
JoinNames(q) ==
    IF Len(q) = 1 THEN Name(q[1])
    ELSE JoinNames(SubSeq(q, 1, Len(q) - 1)) \o <<SP>> \o Name(q[Len(q)])
Reverse(q) == [i \in 1..Len(q) |-> q[Len(q) + 1 - i]]
C9_CommandPathIsRootToNode ==
    res.op = "CommandPath" =>
        /\ res.status = "ok"
        /\ res.str = JoinNames(Reverse(PathUp(res.target, {})))

\* C10: mergePersistentFlags is idempotent: a second run right after a run
\* on the same target leaves every flag set as the first run left it.
C10_MergeIdempotent ==
    [][(res'.op = "ParseFlags" /\ res'.nth = 2) =>
          /\ res'.status # "panic"
          /\ flags' = flags]_vars
\* a second run on a target that holds what the first run inherited
C10_Witness ==
    /\ res.op = "ParseFlags"
    /\ res.nth = 2
    /\ HasParent(res.target)
    /\ \E x, y \in FlagNames :
          /\ x # y
          /\ flags[res.target][x] = NewFlag(res.target, "pflags", x)
          /\ flags[res.target][y] = NewFlag(parent[res.target], "pflags", y)

\* C11: AddCommand panics whenever the receiver is among the nodes passed to
\* it, and in no reachable state is a node its own parent or a member of its
\* own children list.
NotOwnChild(par, kids) ==
    \A n \in Nodes : par[n] # n /\ n \notin Range(kids[n])
C11_SelfAddPanics ==
    [][/\ \A c \in Nodes, cmds \in CmdLists :
              (AddCommand(c, cmds) /\ c \in Range(cmds)) => pc' = "abort"
       /\ NotOwnChild(parent, commands)
       /\ NotOwnChild(parent', commands')]_vars
\* AddCommand panicked at the receiver after it had attached the node passed
\* before it
C11_Witness ==
    /\ pc = "abort"
    /\ res.op = "none"
    /\ \E c, n \in Nodes :
          /\ n # c
          /\ commands[c] = <<n>>
          /\ parent[n] = c
          /\ TotalAdds = 1

\* C12: in every reachable state, also after ParseFlags has run on a node,
\* the names in a node's local flag set and the names in that node's
\* inheritable flag set are disjoint, provided the application registered
\* them disjoint.
NamesIn(fs) == {x \in FlagNames : fs[x] # NoFlag}
RegisteredDisjoint(n) ==
    RegisteredIn(flags[n], n, "flags") \cap RegisteredIn(pflags[n], n, "pflags") = {}
C12_LocalAndInheritableDisjoint ==
    \A n \in Nodes :
        RegisteredDisjoint(n) => NamesIn(flags[n]) \cap NamesIn(pflags[n]) = {}
\* C12 as amended: provided the application registered them disjoint, a name
\* held by both sets of a node names, in the local set, a flag object that
\* was registered in an inheritable set and shared into the local set by a
\* merge, never a flag registered in a local set.
C12_OverlapIsSharedInheritable ==
    \A n \in Nodes :
        RegisteredDisjoint(n) =>
            \A x \in NamesIn(flags[n]) \cap NamesIn(pflags[n]) :
                flags[n][x].set = "pflags"
\* ParseFlags ran on a node that has an inheritable flag and no local flag
\* of its name: both sets now hold the one flag object
C12_Witness ==
    /\ res.op = "ParseFlags"
    /\ res.status = "ok"
    /\ \E x \in FlagNames :
          /\ pflags[res.target][x] = NewFlag(res.target, "pflags", x)
          /\ flags[res.target][x] = pflags[res.target][x]
          /\ RegisteredDisjoint(res.target)

\* C13: when the argument list handed to the dispatcher is empty and the
\* root is runnable, execute resolves the root with an empty residual list
\* and invokes the root's run action with no positional arguments; it
\* neither panics nor returns an error.
C13_EmptyArgsRunRoot ==
    (res.op = "Execute" /\ res.args = <<>> /\ Runnable(Root)) =>
        /\ pc # "abort"
        /\ res.status = "ok"
        /\ res.target = Root
        /\ res.ran = <<[cmd |-> Root, args |-> <<>>]>>

\* C14: mergePersistentFlags on a target t changes nothing but t's local
\* flag set, and only by adding entries: every inheritable flag set, the
\* local flag set of every other node and the parent and children relations
\* are unchanged; every entry added to t's local set is the identical flag
\* object held by the inheritable set of a node on the path from t upwards,
\* and no entry present before is removed or replaced.
C14_MergeOnlyAddsShared ==
    [][\A t \in Nodes : (res'.op = "ParseFlags" /\ res'.target = t) =>
          /\ pflags' = pflags
          /\ parent' = parent
          /\ commands' = commands
          /\ \A n \in Nodes \ {t} : flags'[n] = flags[n]
          /\ \A x \in FlagNames :
                IF flags[t][x] # NoFlag
                THEN flags'[t][x] = flags[t][x]
                ELSE flags'[t][x] # NoFlag =>
                        \E a \in Range(PathUp(t, {})) :
                            flags'[t][x] = pflags'[a][x]]_vars
\* a first merge on a node that kept its local flag and took in the
\* inheritable flag of its parent
C14_Witness ==
    /\ res.op = "ParseFlags"
    /\ res.nth = 1
    /\ HasParent(res.target)
    /\ \E x, y \in FlagNames :
          /\ x # y
          /\ flags[res.target][y] = NewFlag(res.target, "flags", y)
          /\ pflags[parent[res.target]][x] = NewFlag(parent[res.target], "pflags", x)
          /\ flags[res.target][x] = pflags[parent[res.target]][x]

\* C15: the upward lookup Flag and the merge agree: for every node c of an
\* acyclic tree and every name x, the flag that c.Flag(x) returns (c's local
\* flag x, else the inheritable flag x of the nearest node on the path from
\* c to the root, else none) is the flag object that c's local flag set
\* holds under x after
\* mergePersistentFlags on c, and Flag(x) returns the same before and after
\* that merge.
Acyclic == \A n \in Nodes : EndsAtTop(n)
C15_FlagAgreesWithMerge ==
    [][\A c \in Nodes : (Acyclic /\ res'.op = "ParseFlags" /\ res'.target = c) =>
          \A x \in FlagNames :
              /\ ~Flag(c, x).overflow
              /\ Flag(c, x).flag = IF flags[c][x] # NoFlag THEN flags[c][x]
                                   ELSE NearestInherited(PathUp(c, {}), x)
              /\ flags'[c][x] = Flag(c, x).flag
              /\ Flag(c, x)' = Flag(c, x)]_vars
\* a merge on a node two levels down: Flag finds one name at the parent and
\* the other at the grandparent, and the local set now holds both
C15_Witness ==
    /\ res.op = "ParseFlags"
    /\ Acyclic
    /\ HasParent(res.target)
    /\ HasParent(parent[res.target])
    /\ \E x, y \in FlagNames :
          /\ x # y
          /\ Flag(res.target, x).flag = NewFlag(parent[parent[res.target]], "pflags", x)
          /\ Flag(res.target, y).flag = NewFlag(parent[res.target], "pflags", y)
          /\ flags[res.target][x] = pflags[parent[parent[res.target]]][x]
          /\ flags[res.target][y] = pflags[parent[res.target]][y]
====
